---- MODULE Spec2Model ----
(***************************************************************************)
(* A model of jsoncons_ext/jcr/jcr_rules.hpp: the rule nodes and the       *)
(* name-sorted object_rule container (find / at / set / hinted set /       *)
(* erase / bulk insert / validate / operator==), the rule nodes of every   *)
(* class behind shared pointers (validate / insert / clone / destruction)  *)
(* and array_rule (push_back / remove_range).                              *)
(*                                                                         *)
(* A container is the sequence members_; an iterator is a position in      *)
(* 1..Len(members_)+1, the last one being end().  A member value is a      *)
(* std::shared_ptr<rule>, modelled as a pointer into a table of rule nodes.*)
(***************************************************************************)
EXTENDS Integers, Sequences, FiniteSets

VARIABLES members,   \* object_rule::members_ of the container operated on
          rhs,       \* members_ of a second container (operand of operator==)
          op,        \* the call whose result this state shows, "ready" between calls
          pre,       \* members_ as it was when that operation was called
          name,      \* its name argument
          value,     \* its value argument (0: none)
          hint,      \* its hint argument, a position of pre (0: none)
          range,     \* the range [first,last) given to the bulk insert
          doc,       \* the object document given to validate
          ret_it,    \* the iterator it returned, a position of members (0: none)
          ret_bool,  \* the boolean it returned
          heap,      \* the rule nodes alive, by the pointer a shared_ptr holds
          origin,    \* the node clone() was called on (0: none)
          copy,      \* the node clone() returned (0: none)
          self,      \* the node a rule member function was called on (0: none)
          jval,      \* the document value given to rule::validate (<<>>: none)
          outcome,   \* how a call that can fail ended: "true", "false" or "raised"
                     \* for rule::validate, "returned" or "out_of_range" for at,
                     \* "returned" or "assertion" for remove_range
                     \* ("": no such call)
          ret_value  \* the value at returned (0: none)

\* the state of the rule nodes
tree == <<heap, origin, copy>>

\* the call of a member function of a rule node
call == <<self, jval, outcome, ret_value>>

vars == <<members, rhs, op, pre, name, value, hint, range, doc, ret_it, ret_bool,
          heap, origin, copy, self, jval, outcome, ret_value>>

----------------------------------------------------------------------------
(* Bounds of the model *)

\* the largest number of members a container is grown to
MaxMembers == 3
\* the largest number of members of a bulk-inserted range
MaxRange == 2
\* the largest number of members of a validated document
MaxDoc == 2

\* the most members of a container that is compared with a copy
MaxCompared == 2

\* the most members or elements a nested rule node is grown to
MaxNested == 1

\* the most elements the array_rule Array is grown to
MaxElements == 3

----------------------------------------------------------------------------
(* Inputs: names, rule nodes, document values *)

\* member names (string_type), as byte sequences: "a", "ab", "b"
Names == {<<97>>, <<97, 98>>, <<98>>}

any_string_rule == [kind |-> "any_string", from |-> 0, to |-> 0]

integer_range_rule(from, to) == [kind |-> "integer_range", from |-> from, to |-> to]

\* the rule nodes the shared_ptr values point to
RulePtrs == {1, 2}

rule_node(p) == IF p = 1 THEN any_string_rule ELSE integer_range_rule(0, 10)

\* document values (JsonT): the string "a", the integers 5 and 20
JString == [type |-> "string", i |-> 0]

JInteger(i) == [type |-> "integer", i |-> i]

DocValues == {JString, JInteger(5), JInteger(20)}

Member(n, v) == [name |-> n, value |-> v]

NoName == <<>>

SeqsUpTo(S, n) == UNION {[1..k -> S] : k \in 0..n}

\* the other classes of rule node
any_object_rule == [kind |-> "any_object"]

any_integer_rule == [kind |-> "any_integer"]

string_rule(s) == [kind |-> "string", s |-> s]

null_rule == [kind |-> "null"]

bool_rule(b) == [kind |-> "bool", val |-> b]

\* a double is written as the number of its halves: 3 is 1.5
double_rule(d, precision) == [kind |-> "double", val |-> d, precision |-> precision]

integer_rule(i) == [kind |-> "integer", val |-> i]

\* uinteger_rule::to_ is never written and never read
uinteger_rule(u) == [kind |-> "uinteger", val |-> u]

uinteger_range_rule(from, to) == [kind |-> "uinteger_range", from |-> from, to |-> to]

\* array_rule: elements_, a vector of shared_ptr
array_rule(e) == [kind |-> "array", elements |-> e]

\* object_rule: members_, a vector of (name, shared_ptr)
object_rule(m) == [kind |-> "object", members |-> m]

\* the nodes constructed at the start: one leaf of each class behind pointers
\* 1..11, an object_rule (Root), an object_rule and an array_rule to nest in
\* it (Nested, NestedArray) and an array_rule of its own (Array); clone()
\* allocates at Cloned
Root == 12

Nested == 13

NestedArray == 14

Array == 15

Cloned == 16

Pool == 1..15

pool_node(p) ==
    CASE p \in RulePtrs  -> rule_node(p)
      [] p = 3          -> any_object_rule
      [] p = 4          -> any_integer_rule
      [] p = 5          -> string_rule(<<120>>)
      [] p = 6          -> null_rule
      [] p = 7          -> bool_rule(TRUE)
      [] p = 8          -> double_rule(3, 2)
      [] p = 9          -> integer_rule(5)
      [] p = 10         -> uinteger_rule(5)
      [] p = 11         -> uinteger_range_rule(0, 10)
      [] p = Root       -> object_rule(<<>>)
      [] p = Nested     -> object_rule(<<>>)
      [] p = NestedArray -> array_rule(<<>>)
      [] p = Array      -> array_rule(<<>>)

\* the other document values: null, booleans, strings by their bytes, unsigned
\* integers, doubles (in halves), arrays and objects
JNull == [type |-> "null"]

JBool(b) == [type |-> "bool", b |-> b]

JStringOf(s) == [type |-> "string", s |-> s]

JUInteger(u) == [type |-> "uinteger", u |-> u]

JDouble(d) == [type |-> "double", d |-> d]

JArray(e) == [type |-> "array", elements |-> e]

JObject(m) == [type |-> "object", members |-> m]

----------------------------------------------------------------------------
(* Name comparison (jsoncons helpers used by the container) *)

Min(S) == CHOOSE x \in S : \A y \in S : x <= y

\* std::char_traits<char_type>::compare(a, b, len)
compare(a, b, len) ==
    LET diff == {i \in 1..len : a[i] # b[i]}
    IN  IF diff = {} THEN 0
        ELSE IF a[Min(diff)] < b[Min(diff)] THEN -1 ELSE 1

MinLen(a, b) == IF Len(a) < Len(b) THEN Len(a) ELSE Len(b)

\* member_lt_string<value_type,char_type>(length)(a, s): a.name() < s
member_lt_string(a, s) ==
    LET result == compare(a.name, s, MinLen(a.name, s))
    IN  IF result # 0 THEN result < 0 ELSE Len(a.name) < Len(s)

\* name_eq_string(a, s, length)
name_eq_string(a, s) == Len(a) = Len(s) /\ compare(a, s, Len(s)) = 0

\* name_le_string(a, s, length): a <= s
name_le_string(a, s) ==
    LET result == compare(a, s, MinLen(a, s))
    IN  IF result # 0 THEN result < 0 ELSE Len(a) <= Len(s)

\* member_lt_member<value_type>()(a, b): a.name() < b.name()
member_lt_member(a, b) ==
    LET result == compare(a.name, b.name, MinLen(a.name, b.name))
    IN  IF result # 0 THEN result < 0 ELSE Len(a.name) < Len(b.name)

----------------------------------------------------------------------------
(* std::lower_bound: binary search over the positions [first, first+count) *)

RECURSIVE lower_bound_string(_, _, _, _)
lower_bound_string(m, first, count, s) ==
    IF count <= 0 THEN first
    ELSE LET step == count \div 2
             it   == first + step
         IN  IF member_lt_string(m[it], s)
             THEN lower_bound_string(m, it + 1, count - (step + 1), s)
             ELSE lower_bound_string(m, first, step, s)

RECURSIVE lower_bound_member(_, _, _, _)
lower_bound_member(m, first, count, v) ==
    IF count <= 0 THEN first
    ELSE LET step == count \div 2
             it   == first + step
         IN  IF member_lt_member(m[it], v)
             THEN lower_bound_member(m, it + 1, count - (step + 1), v)
             ELSE lower_bound_member(m, first, step, v)

end(m) == Len(m) + 1

\* members_.insert(it, v): v placed before position it
vector_insert(m, it, v) == SubSeq(m, 1, it - 1) \o <<v>> \o SubSeq(m, it, Len(m))

\* members_.erase(it)
vector_erase(m, it) == SubSeq(m, 1, it - 1) \o SubSeq(m, it + 1, Len(m))

----------------------------------------------------------------------------
(* object_rule: find, erase, set *)

\* find as it would be without the name_eq_string test
find_without_name_test(m, s) == lower_bound_string(m, 1, Len(m), s)

\* find(name, length): the position found, or end()
find(m, s) ==
    LET it == lower_bound_string(m, 1, Len(m), s)
    IN  IF it # end(m) /\ name_eq_string(m[it].name, s) THEN it ELSE end(m)

\* at(name) that takes the member the binary search stops at
at_lower_bound(m, n) ==
    LET it == find_without_name_test(m, n)
    IN  IF it = end(m) THEN [thrown |-> "out_of_range", value |-> 0]
        ELSE [thrown |-> "", value |-> m[it].value]

\* at(name): the value of the member find returns, std::out_of_range if
\* find returns end()
at(m, n) ==
    LET it == find(m, n)
    IN  IF it = end(m) THEN [thrown |-> "out_of_range", value |-> 0]
        ELSE [thrown |-> "", value |-> m[it].value]

\* erase as it would be without the name_eq_string test
erase_without_name_test(m, s) ==
    LET it == lower_bound_string(m, 1, Len(m), s)
    IN  IF it # end(m) THEN vector_erase(m, it) ELSE m

\* erase(name, length): members_ afterwards
erase(m, s) ==
    LET it == lower_bound_string(m, 1, Len(m), s)
    IN  IF it # end(m) /\ name_eq_string(m[it].name, s)
        THEN vector_erase(m, it)
        ELSE m

\* set as it would be without the update branch: an existing name is inserted again
set_without_update(m, s, v) ==
    LET it == lower_bound_string(m, 1, Len(m), s)
    IN  IF it = end(m) THEN Append(m, Member(s, v))
        ELSE vector_insert(m, it, Member(s, v))

\* set as it would be if a new member always went to the tail
set_push_back(m, s, v) ==
    LET it == lower_bound_string(m, 1, Len(m), s)
    IN  IF it = end(m) THEN Append(m, Member(s, v))
        ELSE IF name_eq_string(m[it].name, s) THEN [m EXCEPT ![it].value = v]
        ELSE Append(m, Member(s, v))

\* set as it would be if it gave the value to every member of that name
set_every_member(m, s, v) ==
    LET it == lower_bound_string(m, 1, Len(m), s)
    IN  IF it = end(m) THEN Append(m, Member(s, v))
        ELSE IF name_eq_string(m[it].name, s)
             THEN [i \in DOMAIN m |-> IF name_eq_string(m[i].name, s) THEN Member(s, v) ELSE m[i]]
        ELSE vector_insert(m, it, Member(s, v))

\* set(s, length, value): members_ afterwards
set(m, s, v) ==
    LET it == lower_bound_string(m, 1, Len(m), s)
    IN  IF it = end(m) THEN Append(m, Member(s, v))
        ELSE IF name_eq_string(m[it].name, s) THEN [m EXCEPT ![it].value = v]
        ELSE vector_insert(m, it, Member(s, v))

----------------------------------------------------------------------------
(* object_rule: hinted set *)

\* the hinted search as it would be if the hint were trusted: no name_le_string test
hinted_lower_bound_trusting(m, h, s) ==
    IF h # end(m)
    THEN lower_bound_string(m, h, end(m) - h, s)
    ELSE lower_bound_string(m, 1, Len(m), s)

\* the search of set(hint, s, length, value): from the hint when the hint's
\* name is <= s, from begin() otherwise
hinted_lower_bound(m, h, s) ==
    IF h # end(m) /\ name_le_string(m[h].name, s)
    THEN lower_bound_string(m, h, end(m) - h, s)
    ELSE lower_bound_string(m, 1, Len(m), s)

\* hinted set as it would be if it inserted at the hint instead of at the
\* position found
set_hint_at_hint(m, h, s, v) ==
    LET it == hinted_lower_bound(m, h, s)
    IN  IF it = end(m)
        THEN LET pushed == Append(m, Member(s, v))
             IN  [members |-> pushed, it |-> end(pushed)]
        ELSE IF name_eq_string(m[it].name, s)
        THEN [members |-> [m EXCEPT ![it].value = v], it |-> it]
        ELSE [members |-> vector_insert(m, h, Member(s, v)), it |-> h]

\* set(hint, s, length, value): members_ afterwards and the iterator returned
set_hint(m, h, s, v) ==
    LET it == hinted_lower_bound(m, h, s)
    IN  IF it = end(m)
        THEN LET pushed == Append(m, Member(s, v))
             IN  [members |-> pushed, it |-> end(pushed)]
        ELSE IF name_eq_string(m[it].name, s)
        THEN [members |-> [m EXCEPT ![it].value = v], it |-> it]
        ELSE [members |-> vector_insert(m, it, Member(s, v)), it |-> it]

----------------------------------------------------------------------------
(* Rule nodes: validate *)

\* rule<JsonT>::validate, by the node's class
rule_validate(r, val) ==
    CASE r.kind = "any_string"    -> val.type = "string"
      [] r.kind = "integer_range" -> val.type = "integer" /\ val.i >= r.from /\ val.i <= r.to

\* object_rule::validate: the loop over the document's members from member i on
RECURSIVE validate_loop(_, _, _)
validate_loop(m, val, i) ==
    IF i > Len(val) THEN TRUE
    ELSE LET it     == find(m, val[i].name)
             result == IF it = end(m) THEN FALSE
                       ELSE rule_validate(rule_node(m[it].value), val[i].value)
         IN  IF ~result THEN FALSE ELSE validate_loop(m, val, i + 1)

\* validate as it would be without the val.size() > 0 test
validate_without_size_test(m, val) == validate_loop(m, val, 1)

\* validate as it would be if every rule of the container had to be matched
\* by a member of the document
validate_rules_required(m, val) ==
    IF Len(val) > 0
    THEN /\ validate_loop(m, val, 1)
         /\ \A k \in DOMAIN m : \E i \in DOMAIN val : val[i].name = m[k].name
    ELSE FALSE

\* object_rule::validate(j), val being j.object_value()
validate(m, val) == IF Len(val) > 0 THEN validate_loop(m, val, 1) ELSE FALSE

----------------------------------------------------------------------------
(* object_rule: bulk insert, operator== *)

Arrangements(n) == {f \in [1..n -> 1..n] : \A i, j \in 1..n : i # j => f[i] # f[j]}

\* the arrangements std::sort(begin, end, member_lt_member) may leave: the order
\* of members with equal names is unspecified
sort(s) ==
    {t \in {[i \in 1..Len(s) |-> s[f[i]]] : f \in Arrangements(Len(s))} :
        \A i, j \in 1..Len(t) : i < j => ~member_lt_member(t[j], t[i])}

\* bulk insert as it would be if it went through set, member by member
RECURSIVE set_each(_, _, _)
set_each(m, r, i) ==
    IF i > Len(r) THEN m ELSE set_each(set(m, r[i].name, r[i].value), r, i + 1)

insert_by_set(m, r) == {set_each(m, r, 1)}

\* insert(first, last, pred): the range appended at the tail, then one sort
insert(m, r) == sort(m \o r)

RECURSIVE equal_loop(_, _, _)
equal_loop(lhs, r, i) ==
    IF i > Len(lhs) THEN TRUE
    ELSE LET rhs_it == lower_bound_member(r, 1, Len(r), lhs[i])
         IN  IF rhs_it = end(r) \/ r[rhs_it].name # lhs[i].name
                \/ r[rhs_it].value # lhs[i].value
             THEN FALSE
             ELSE equal_loop(lhs, r, i + 1)

\* operator== without its comparison of the two sizes
operator_eq_without_size_test(lhs, r) == equal_loop(lhs, r, 1)

\* operator==(rhs)
operator_eq(lhs, r) == IF Len(lhs) # Len(r) THEN FALSE ELSE equal_loop(lhs, r, 1)

----------------------------------------------------------------------------
(* The document value (JsonT) as the rule nodes use it *)

is_object(v) == v.type = "object"

is_array(v) == v.type = "array"

is_string(v) == v.type = "string"

is_null(v) == v.type = "null"

is_bool(v) == v.type = "bool"

is_double(v) == v.type = "double"

is_integer(v) == v.type = "integer"

is_uinteger(v) == v.type = "uinteger"

as_string(v) == v.s

as_bool(v) == v.b

as_double(v) == v.d

as_integer(v) == v.i

\* what an accessor does with a value of another type is not stated: the
\* call raises (nothing is got, x stands in), or it returns some value
Raised(x) == [raised |-> TRUE, got |-> x]

Got(x) == [raised |-> FALSE, got |-> x]

\* as_uinteger(): the number of an unsigned integer
as_uinteger(v) == IF is_uinteger(v) THEN {Got(v.u)} ELSE {Raised(0), Got(0), Got(1)}

\* object_value(): the members of an object
object_value(v) ==
    IF is_object(v) THEN {Got(v.members)}
    ELSE {Raised(<<>>), Got(<<>>), Got(<<Member(<<97>>, JNull)>>)}

\* array_value(): the elements of an array
array_value(v) == IF is_array(v) THEN {Got(v.elements)} ELSE {Raised(<<>>), Got(<<>>)}

----------------------------------------------------------------------------
(* Rule nodes behind pointers: validate, insert, clone *)

\* a bool returned by validate
returned(b) == IF b THEN "true" ELSE "false"

\* any_integer_rule::validate: val.is_integer() || val.as_uinteger()
any_integer_validate(v) ==
    IF is_integer(v) THEN {"true"}
    ELSE {IF u.raised THEN "raised" ELSE returned(u.got # 0) : u \in as_uinteger(v)}

\* an array_rule that accepts the arrays of as many elements as it has rules
array_validate_by_size(r, v) ==
    {IF e.raised THEN "raised" ELSE returned(Len(e.got) = Len(r.elements)) :
        e \in array_value(v)}

\* array_rule::validate: j.array_value(), then false
array_validate(r, v) == {IF e.raised THEN "raised" ELSE "false" : e \in array_value(v)}

\* rule::validate of the node h[p], virtual: the set of the ways it can end
RECURSIVE node_validate(_, _, _)
RECURSIVE members_validate(_, _, _, _)
node_validate(h, p, v) ==
    LET r == h[p]
    IN  CASE r.kind \in {"any_string", "integer_range"} -> {returned(rule_validate(r, v))}
          [] r.kind = "any_object"     -> {returned(is_object(v))}
          [] r.kind = "any_integer"    -> any_integer_validate(v)
          [] r.kind = "string"         -> {returned(is_string(v) /\ as_string(v) = r.s)}
          [] r.kind = "null"           -> {returned(is_null(v))}
          [] r.kind = "bool"           -> {returned(is_bool(v) /\ as_bool(v) = r.val)}
          [] r.kind = "double"         -> {returned(is_double(v) /\ as_double(v) = r.val)}
          [] r.kind = "integer"        -> {returned(is_integer(v) /\ as_integer(v) = r.val)}
          [] r.kind = "uinteger"       -> {returned(is_uinteger(v) /\ v.u = r.val)}
          [] r.kind = "uinteger_range" ->
                {returned(is_uinteger(v) /\ v.u >= r.from /\ v.u <= r.to)}
          [] r.kind = "array"          -> array_validate(r, v)
          [] r.kind = "object"         ->
                UNION {IF o.raised THEN {"raised"}
                       ELSE IF Len(o.got) > 0 THEN members_validate(h, r.members, o.got, 1)
                       ELSE {"false"} : o \in object_value(v)}

\* object_rule::validate: the loop over the document's members from member i on
members_validate(h, m, d, i) ==
    IF i > Len(d) THEN {"true"}
    ELSE LET it == find(m, d[i].name)
         IN  IF it = end(m) THEN {"false"}
             ELSE UNION {IF result = "true" THEN members_validate(h, m, d, i + 1)
                         ELSE {result} : result \in node_validate(h, m[it].value, d[i].value)}

\* rule::insert(first, last), virtual: object_rule sorts the range in,
\* array_rule appends the second of each pair, any other node ignores it
rule_insert(r, pairs) ==
    CASE r.kind = "object" -> {object_rule(m) : m \in insert(r.members, pairs)}
      [] r.kind = "array"  ->
            {array_rule(r.elements \o [i \in DOMAIN pairs |-> pairs[i].value])}
      [] OTHER             -> {r}

\* a failed JSONCONS_ASSERT ends the call: what follows it is not executed
JSONCONS_ASSERT(x) == IF x THEN "" ELSE "assertion"

\* remove_range without its test of to_index against the size: erase stops
\* at the last element
remove_range_without_size_test(e, from_index, to_index) ==
    IF JSONCONS_ASSERT(from_index <= to_index) # ""
    THEN [thrown |-> "assertion", elements |-> e]
    ELSE [thrown |-> "",
          elements |-> SubSeq(e, 1, from_index) \o SubSeq(e, to_index + 1, Len(e))]

\* array_rule::remove_range(from_index, to_index) on elements_, indices from 0
remove_range(e, from_index, to_index) ==
    IF JSONCONS_ASSERT(from_index <= to_index) # ""
    THEN [thrown |-> "assertion", elements |-> e]
    ELSE IF JSONCONS_ASSERT(to_index <= Len(e)) # ""
    THEN [thrown |-> "assertion", elements |-> e]
    ELSE [thrown |-> "",
          elements |-> SubSeq(e, 1, from_index) \o SubSeq(e, to_index + 1, Len(e))]

\* clone() that constructs a string_rule from no string
clone_without_string(r) ==
    CASE r.kind = "any_object"     -> any_object_rule
      [] r.kind = "any_integer"    -> any_integer_rule
      [] r.kind = "string"         -> string_rule(<<>>)
      [] r.kind = "any_string"     -> any_string_rule
      [] r.kind = "null"           -> null_rule
      [] r.kind = "bool"           -> bool_rule(r.val)
      [] r.kind = "double"         -> double_rule(r.val, r.precision)
      [] r.kind = "integer"        -> integer_rule(r.val)
      [] r.kind = "uinteger"       -> uinteger_rule(r.val)
      [] r.kind = "integer_range"  -> integer_range_rule(r.from, r.to)
      [] r.kind = "uinteger_range" -> uinteger_range_rule(r.from, r.to)
      [] r.kind = "array"          -> array_rule(r.elements)
      [] r.kind = "object"         -> object_rule(r.members)

\* rule::clone(), virtual: a node of the same class constructed from the
\* fields of this one; array_rule and object_rule use their copy constructor,
\* which copies the vector of shared_ptr
clone(r) ==
    CASE r.kind = "any_object"     -> any_object_rule
      [] r.kind = "any_integer"    -> any_integer_rule
      [] r.kind = "string"         -> string_rule(r.s)
      [] r.kind = "any_string"     -> any_string_rule
      [] r.kind = "null"           -> null_rule
      [] r.kind = "bool"           -> bool_rule(r.val)
      [] r.kind = "double"         -> double_rule(r.val, r.precision)
      [] r.kind = "integer"        -> integer_rule(r.val)
      [] r.kind = "uinteger"       -> uinteger_rule(r.val)
      [] r.kind = "integer_range"  -> integer_range_rule(r.from, r.to)
      [] r.kind = "uinteger_range" -> uinteger_range_rule(r.from, r.to)
      [] r.kind = "array"          -> array_rule(r.elements)
      [] r.kind = "object"         -> object_rule(r.members)

\* the nodes a node holds a shared_ptr to
children(r) ==
    CASE r.kind = "object" -> {r.members[i].value : i \in DOMAIN r.members}
      [] r.kind = "array"  -> {r.elements[i] : i \in DOMAIN r.elements}
      [] OTHER             -> {}

----------------------------------------------------------------------------
(* The state machine *)

\* the names used in a tree of rule nodes and in the documents it validates
TreeNames == {<<97>>, <<98>>}

\* the values validated by the rule nodes: scalars of every type, arrays,
\* and objects of up to two members, one of them nested
Scalars ==
    {JNull, JBool(TRUE), JBool(FALSE), JStringOf(<<120>>), JStringOf(<<121>>),
     JInteger(5), JInteger(20), JUInteger(0), JUInteger(5), JUInteger(20),
     JDouble(3), JDouble(4)}

MemberValues ==
    {JStringOf(<<120>>), JInteger(5), JArray(<<>>), JObject(<<Member(<<97>>, JInteger(5))>>)}

TreeValues ==
    Scalars \cup {JArray(<<>>), JArray(<<JInteger(5)>>)}
            \cup {JObject(d) : d \in SeqsUpTo([name : TreeNames, value : MemberValues], 2)}

\* the ranges inserted into a nested node
TreeRanges == {<<Member(<<97>>, v)>> : v \in RulePtrs}

Documents == SeqsUpTo([name : Names, value : DocValues], MaxDoc)

Ranges == SeqsUpTo([name : Names, value : RulePtrs], MaxRange) \ {<<>>}

Init ==
    /\ members = <<>>
    /\ rhs = <<>>
    /\ op = "ready"
    /\ pre = <<>>
    /\ name = NoName
    /\ value = 0
    /\ hint = 0
    /\ range = <<>>
    /\ doc = <<>>
    /\ ret_it = 0
    /\ ret_bool = FALSE
    /\ heap = [p \in Pool |-> pool_node(p)]
    /\ origin = 0
    /\ copy = 0
    /\ self = 0
    /\ jval = <<>>
    /\ outcome = ""
    /\ ret_value = 0

Set ==
    /\ op = "ready"
    /\ \E n \in Names, v \in RulePtrs :
        /\ Len(set(members, n, v)) <= MaxMembers
        /\ members' = set(members, n, v)
        /\ op' = "set"
        /\ pre' = members
        /\ name' = n
        /\ value' = v
        /\ hint' = 0
        /\ range' = <<>>
        /\ doc' = <<>>
        /\ ret_it' = 0
        /\ ret_bool' = FALSE
        /\ UNCHANGED rhs
    /\ UNCHANGED <<tree, call>>

SetHint ==
    /\ op = "ready"
    /\ \E h \in 1..end(members), n \in Names, v \in RulePtrs :
        /\ Len(set_hint(members, h, n, v).members) <= MaxMembers
        /\ members' = set_hint(members, h, n, v).members
        /\ ret_it' = set_hint(members, h, n, v).it
        /\ op' = "set_hint"
        /\ pre' = members
        /\ name' = n
        /\ value' = v
        /\ hint' = h
        /\ range' = <<>>
        /\ doc' = <<>>
        /\ ret_bool' = FALSE
        /\ UNCHANGED rhs
    /\ UNCHANGED <<tree, call>>

Erase ==
    /\ op = "ready"
    /\ \E n \in Names :
        /\ members' = erase(members, n)
        /\ op' = "erase"
        /\ pre' = members
        /\ name' = n
        /\ value' = 0
        /\ hint' = 0
        /\ range' = <<>>
        /\ doc' = <<>>
        /\ ret_it' = 0
        /\ ret_bool' = FALSE
        /\ UNCHANGED rhs
    /\ UNCHANGED <<tree, call>>

Find ==
    /\ op = "ready"
    /\ \E n \in Names :
        /\ ret_it' = find(members, n)
        /\ op' = "find"
        /\ pre' = members
        /\ name' = n
        /\ value' = 0
        /\ hint' = 0
        /\ range' = <<>>
        /\ doc' = <<>>
        /\ ret_bool' = FALSE
        /\ UNCHANGED <<members, rhs>>
    /\ UNCHANGED <<tree, call>>

At ==
    /\ op = "ready"
    /\ \E n \in Names :
        /\ outcome' = (IF at(members, n).thrown = "" THEN "returned" ELSE at(members, n).thrown)
        /\ ret_value' = at(members, n).value
        /\ op' = "at"
        /\ pre' = members
        /\ name' = n
    /\ UNCHANGED <<members, rhs, value, hint, range, doc, ret_it, ret_bool>>
    /\ UNCHANGED <<tree, self, jval>>

Validate ==
    /\ op = "ready"
    /\ \E j \in Documents :
        /\ ret_bool' = validate(members, j)
        /\ op' = "validate"
        /\ pre' = members
        /\ doc' = j
        /\ name' = NoName
        /\ value' = 0
        /\ hint' = 0
        /\ range' = <<>>
        /\ ret_it' = 0
        /\ UNCHANGED <<members, rhs>>
    /\ UNCHANGED <<tree, call>>

\* bulk insert into a container that stays within max members
InsertWithin(max) ==
    /\ op = "ready"
    /\ \E r \in Ranges :
        /\ Len(members) + Len(r) <= max
        /\ members' \in insert(members, r)
        /\ op' = "insert"
        /\ pre' = members
        /\ range' = r
        /\ name' = NoName
        /\ value' = 0
        /\ hint' = 0
        /\ doc' = <<>>
        /\ ret_it' = 0
        /\ ret_bool' = FALSE
        /\ UNCHANGED rhs
    /\ UNCHANGED <<tree, call>>

Insert == InsertWithin(MaxMembers)

\* set on the second container
SetRhs ==
    /\ op = "ready"
    /\ \E n \in Names, v \in RulePtrs :
        /\ Len(set(rhs, n, v)) <= MaxMembers
        /\ rhs' = set(rhs, n, v)
        /\ op' = "set_rhs"
        /\ name' = n
        /\ value' = v
        /\ UNCHANGED <<members, pre, hint, range, doc, ret_it, ret_bool>>
    /\ UNCHANGED <<tree, call>>

\* object_rule(const object_rule& val): the second container becomes a copy of
\* the first, member by member; the copied values are the same pointers
CopyRhs ==
    /\ op = "ready"
    /\ rhs' = members
    /\ op' = "copy"
    /\ UNCHANGED <<members, pre, name, value, hint, range, doc, ret_it, ret_bool>>
    /\ UNCHANGED <<tree, call>>

\* members == rhs
Equals ==
    /\ op = "ready"
    /\ ret_bool' = operator_eq(members, rhs)
    /\ op' = "equals"
    /\ UNCHANGED <<members, rhs, pre, name, value, hint, range, doc, ret_it>>
    /\ UNCHANGED <<tree, call>>

\* the number of nodes a node holds
size(r) ==
    CASE r.kind = "object" -> Len(r.members)
      [] r.kind = "array"  -> Len(r.elements)
      [] OTHER             -> 0

\* Root.set("a", c): a leaf or one of the two nested nodes becomes the member
SetChild ==
    /\ op = "ready"
    /\ Root \in DOMAIN heap
    /\ \E c \in {1, Nested, NestedArray} :
        /\ c \in DOMAIN heap
        /\ heap' = [heap EXCEPT ![Root] = object_rule(set(@.members, <<97>>, c))]
        /\ op' = "set_child"
        /\ self' = Root
        /\ name' = <<97>>
        /\ value' = c
    /\ UNCHANGED <<members, rhs, pre, hint, range, doc, ret_it, ret_bool>>
    /\ UNCHANGED <<origin, copy, jval, outcome, ret_value>>

\* p->insert(first, last) on a nested node, through the pointer the caller
\* kept of it
InsertChild ==
    /\ op = "ready"
    /\ \E p \in {Nested, NestedArray}, r \in TreeRanges :
        /\ p \in DOMAIN heap
        /\ size(heap[p]) + Len(r) <= MaxNested
        /\ \A i \in DOMAIN r : r[i].value \in DOMAIN heap
        /\ \E inserted \in rule_insert(heap[p], r) : heap' = [heap EXCEPT ![p] = inserted]
        /\ op' = "insert_child"
        /\ self' = p
        /\ range' = r
    /\ UNCHANGED <<members, rhs, pre, name, value, hint, doc, ret_it, ret_bool>>
    /\ UNCHANGED <<origin, copy, jval, outcome, ret_value>>

\* Array.push_back(value)
PushBack ==
    /\ op = "ready"
    /\ Len(heap[Array].elements) < MaxElements
    /\ \E v \in RulePtrs :
        /\ heap' = [heap EXCEPT ![Array] = array_rule(Append(@.elements, v))]
        /\ op' = "push_back"
        /\ self' = Array
        /\ value' = v
    /\ UNCHANGED <<members, rhs, pre, name, hint, range, doc, ret_it, ret_bool>>
    /\ UNCHANGED <<origin, copy, jval, outcome, ret_value>>

\* Array.remove_range(from_index, to_index); range shows the two indices
RemoveRange ==
    /\ op = "ready"
    /\ \E from_index, to_index \in 0..(MaxElements + 1) :
        LET removed == remove_range(heap[Array].elements, from_index, to_index)
        IN  /\ heap' = [heap EXCEPT ![Array] = array_rule(removed.elements)]
            /\ outcome' = (IF removed.thrown = "" THEN "returned" ELSE removed.thrown)
            /\ op' = "remove_range"
            /\ self' = Array
            /\ pre' = heap[Array].elements
            /\ range' = <<from_index, to_index>>
    /\ UNCHANGED <<members, rhs, name, value, hint, doc, ret_it, ret_bool>>
    /\ UNCHANGED <<origin, copy, jval, ret_value>>

\* p->clone(): the node returned is allocated at Cloned
Clone ==
    /\ op = "ready"
    /\ copy = 0
    /\ \E p \in DOMAIN heap :
        /\ heap' = [q \in DOMAIN heap \cup {Cloned} |->
                        IF q = Cloned THEN clone(heap[p]) ELSE heap[q]]
        /\ origin' = p
        /\ copy' = Cloned
        /\ op' = "clone"
        /\ self' = p
    /\ UNCHANGED <<members, rhs, pre, name, value, hint, range, doc, ret_it, ret_bool>>
    /\ UNCHANGED <<jval, outcome, ret_value>>

\* the caller drops the cloned node's original: no other node holds it, the
\* last shared_ptr to it goes and the node is destroyed
Discard ==
    /\ op = "ready"
    /\ copy # 0
    /\ origin \in DOMAIN heap
    /\ \A q \in DOMAIN heap : origin \notin children(heap[q])
    /\ heap' = [q \in DOMAIN heap \ {origin} |-> heap[q]]
    /\ op' = "discard"
    /\ self' = origin
    /\ UNCHANGED <<members, rhs, pre, name, value, hint, range, doc, ret_it, ret_bool>>
    /\ UNCHANGED <<origin, copy, jval, outcome, ret_value>>

\* p->validate(v)
ValidateNode ==
    /\ op = "ready"
    /\ \E p \in DOMAIN heap, v \in TreeValues :
        /\ outcome' \in node_validate(heap, p, v)
        /\ op' = "validate_node"
        /\ self' = p
        /\ jval' = v
    /\ UNCHANGED <<members, rhs, pre, name, value, hint, range, doc, ret_it, ret_bool>>
    /\ UNCHANGED <<tree, ret_value>>

\* the call returns: its arguments and its result go out of scope, and the
\* caller is free to make the next call
Return ==
    /\ op # "ready"
    /\ op' = "ready"
    /\ pre' = <<>>
    /\ name' = NoName
    /\ value' = 0
    /\ hint' = 0
    /\ range' = <<>>
    /\ doc' = <<>>
    /\ ret_it' = 0
    /\ ret_bool' = FALSE
    /\ self' = 0
    /\ jval' = <<>>
    /\ outcome' = ""
    /\ ret_value' = 0
    /\ UNCHANGED <<members, rhs, tree>>

\* every operation of one container, bulk insert included
Next == Set \/ SetHint \/ Erase \/ Find \/ At \/ Validate \/ Insert \/ Return

Spec == Init /\ [][Next]_vars

\* the discrete path only: no bulk insert
NextDiscrete == Set \/ SetHint \/ Erase \/ Find \/ At \/ Validate \/ Return

SpecDiscrete == Init /\ [][NextDiscrete]_vars

\* two containers built by set, and their comparison
NextEq == Set \/ SetRhs \/ Equals \/ Return

SpecEq == Init /\ [][NextEq]_vars

\* a container changed by set, erase and bulk insert, compared with a copy
\* taken of it earlier; the first container stays within MaxCompared members
SetCompared == Set /\ Len(members') <= MaxCompared

InsertCompared == InsertWithin(MaxCompared)

NextCompare == SetCompared \/ Erase \/ InsertCompared \/ CopyRhs \/ Equals \/ Return

SpecCompare == Init /\ [][NextCompare]_vars

\* a tree of rule nodes is built and its nodes validate document values
NextNodes == SetChild \/ InsertChild \/ ValidateNode \/ Return

SpecNodes == Init /\ [][NextNodes]_vars

\* a tree of rule nodes is built and changed, a node of it is cloned and the
\* original of the clone dropped
NextClone == SetChild \/ InsertChild \/ Clone \/ Discard \/ Return

SpecClone == Init /\ [][NextClone]_vars

\* an array_rule grown by push_back and cut by remove_range
NextArray == PushBack \/ RemoveRange \/ Return

SpecArray == Init /\ [][NextArray]_vars

----------------------------------------------------------------------------
(* Vocabulary of the properties *)

\* a is before b in byte-wise lexicographic order
LexLess(a, b) ==
    \E k \in 1..(Len(b)) :
        /\ \A i \in 1..(k - 1) : i <= Len(a) /\ a[i] = b[i]
        /\ (k = Len(a) + 1 \/ (k <= Len(a) /\ a[k] < b[k]))

StrictlyAscending(m) ==
    \A i, j \in DOMAIN m : i < j => LexLess(m[i].name, m[j].name)

NonDescending(m) ==
    \A i, j \in DOMAIN m : i < j => ~LexLess(m[j].name, m[i].name)

\* the positions of the members of m named n
Hits(m, n) == {i \in DOMAIN m : m[i].name = n}

\* m without its member at position k
Without(m, k) == [i \in 1..(Len(m) - 1) |-> IF i < k THEN m[i] ELSE m[i + 1]]

\* how many times member x occurs in m
Count(m, x) == Cardinality({i \in DOMAIN m : m[i] = x})

AllMembers == [name : Names, value : RulePtrs]

----------------------------------------------------------------------------
(* C1: after any sequence of set, hinted set (any hint position, end        *)
(* included) and erase from the empty container, the member sequence is     *)
(* strictly ascending by name: sorted, and no two members share a name.     *)
C1_StrictlyAscending == StrictlyAscending(members)

\* a hinted set whose hint lies after the place of the new name has inserted
\* a third member in front of the two others
C1_Witness ==
    /\ op = "set_hint"
    /\ Len(pre) = 2
    /\ hint = 2
    /\ Len(members) = 3
    /\ ret_it = 1

(* C2: on every container reached by set/erase, find(name) returns what a   *)
(* linear scan returns: the position of the one member with that name, or   *)
(* end when there is none.                                                  *)
C2_FindIsLinearScan ==
    op = "find" =>
        IF Hits(members, name) = {}
        THEN ret_it = end(members)
        ELSE Hits(members, name) = {ret_it}

\* find has found the last of three members
C2_Witness == op = "find" /\ Len(members) = 3 /\ ret_it = 3

(* C3: set(name,value) on a sorted duplicate-free container inserts or      *)
(* updates: with no member of that name the size grows by one and the new   *)
(* member holds value; with one, the size is unchanged and that member's    *)
(* value is replaced; every other member keeps name, value and order.       *)
C3_SetInsertsOrUpdates ==
    (op = "set" /\ StrictlyAscending(pre)) =>
        IF Hits(pre, name) = {}
        THEN /\ Len(members) = Len(pre) + 1
             /\ \E k \in DOMAIN members :
                    members[k] = Member(name, value) /\ Without(members, k) = pre
        ELSE /\ Len(members) = Len(pre)
             /\ \A i \in DOMAIN pre :
                    members[i] = IF i \in Hits(pre, name)
                                 THEN Member(name, value) ELSE pre[i]

\* set has replaced the value of the middle member of three
C3_Witness ==
    /\ op = "set"
    /\ StrictlyAscending(pre)
    /\ Len(pre) = 3
    /\ pre[2].name = name
    /\ pre[2].value # value
    /\ members[2].value = value

(* C4: on a sorted duplicate-free container, hinted set(hint,name,value)    *)
(* leaves exactly the member sequence unhinted set(name,value) leaves,      *)
(* whatever the hint: any member position or end, its name below, equal to  *)
(* or above the new name.                                                   *)
C4_HintedSetEqualsSet ==
    (op = "set_hint" /\ StrictlyAscending(pre)) => members = set(pre, name, value)

\* the hint's name is above the new name, and the member was inserted
C4_Witness ==
    /\ op = "set_hint"
    /\ StrictlyAscending(pre)
    /\ hint # end(pre)
    /\ LexLess(name, pre[hint].name)
    /\ Len(members) = Len(pre) + 1

(* C5: hinted set returns an iterator to the affected member: in each of    *)
(* its three cases (appended, updated, inserted before a member) the        *)
(* position returned is not end and designates the member (name, value).    *)
C5_HintedSetReturnsMember ==
    op = "set_hint" =>
        ret_it # end(members) /\ members[ret_it] = Member(name, value)

(* C6, as stated: validating an object document returns true iff the        *)
(* document has at least one member and, for every member of the document,  *)
(* the container holds a rule with that member's name that validates the    *)
(* member's value; so the empty object {} is rejected by every container.   *)
C6_ValidateIffSomeRuleOfThatNameValidates ==
    op = "validate" =>
        ret_bool =
            (/\ Len(doc) > 0
             /\ \A i \in DOMAIN doc :
                    \E k \in Hits(members, doc[i].name) :
                        rule_validate(rule_node(members[k].value), doc[i].value))

(* C6, amended: validating an object document returns true iff the document *)
(* has at least one member and, for every member of the document, the       *)
(* container holds a rule with that member's name and the first such rule   *)
(* in container order (the only one unless a bulk insert left several)      *)
(* validates the member's value; the empty object {} is always rejected.    *)
C6_ValidateIffFirstRuleOfThatNameValidates ==
    op = "validate" =>
        ret_bool =
            (/\ Len(doc) > 0
             /\ \A i \in DOMAIN doc :
                    /\ Hits(members, doc[i].name) # {}
                    /\ rule_validate(
                           rule_node(members[Min(Hits(members, doc[i].name))].value),
                           doc[i].value))

\* a two-member document has been accepted by a container that holds a name twice
C6_Witness ==
    /\ op = "validate"
    /\ ret_bool
    /\ Len(doc) = 2
    /\ doc[1].name # doc[2].name
    /\ \E n \in Names : Cardinality(Hits(members, n)) = 2

TypeName == <<97, 98>>

CountName == <<98>>

\* the rules {type: AnyString, count: IntegerRange(0,10)}
TypeCountRules == <<Member(TypeName, 1), Member(CountName, 2)>>

(* C7: schema members with no corresponding document member never cause     *)
(* failure: when set (hinted or not) puts a rule under a name that does not *)
(* occur in a document, the verdict on that document is the same before and *)
(* after; with rules type: AnyString and count: IntegerRange(0,10) the      *)
(* document {count: 5} is accepted and {type: "a", count: 20} rejected.     *)
C7_UnmatchedRuleKeepsVerdict ==
    /\ op \in {"set", "set_hint"} =>
           \A j \in Documents :
               Hits(j, name) = {} => validate(members, j) = validate(pre, j)
    /\ (op = "validate" /\ members = TypeCountRules) =>
           /\ doc = <<Member(CountName, JInteger(5))>> => ret_bool
           /\ doc = <<Member(TypeName, JString), Member(CountName, JInteger(20))>>
                  => ~ret_bool

\* a rule was added under a name absent from a document that is accepted
C7_Witness ==
    /\ op = "set"
    /\ Len(members) = Len(pre) + 1
    /\ \E j \in Documents :
           Len(j) > 0 /\ Hits(j, name) = {} /\ validate(pre, j) /\ validate(members, j)

(* C8: bulk insert of k members into a container of size n leaves a         *)
(* container of size n+k, in non-descending name order, whose multiset of   *)
(* (name,value) pairs is the old members plus the k inserted ones: names    *)
(* that duplicate a member or each other are kept.                          *)
C8_InsertAppendsAndSorts ==
    op = "insert" =>
        /\ Len(members) = Len(pre) + Len(range)
        /\ NonDescending(members)
        /\ \A x \in AllMembers :
               Count(members, x) = Count(pre, x) + Count(range, x)

\* two members with one name were bulk-inserted and both are in the container
C8_Witness ==
    /\ op = "insert"
    /\ Len(range) = 2
    /\ range[1].name = range[2].name
    /\ range[1].value # range[2].value
    /\ Cardinality(Hits(members, range[1].name)) >= 2

(* C9, as stated: erase(name) removes the member with that name when one    *)
(* exists (the size decreases by one, find(name) then returns end) and is a *)
(* no-op when none exists; every other member keeps name, value and order.  *)
C9_EraseRemovesTheName ==
    op = "erase" =>
        IF Hits(pre, name) # {}
        THEN /\ Len(members) = Len(pre) - 1
             /\ find(members, name) = end(members)
             /\ \E k \in Hits(pre, name) : members = Without(pre, k)
        ELSE members = pre

(* C9, amended: erase(name) removes the first member with that name when    *)
(* one exists (the size decreases by one; find(name) then returns end       *)
(* unless another member had that name too, which needs a bulk insert) and  *)
(* is a no-op when none exists; every other member keeps name, value and    *)
(* order.                                                                   *)
C9_EraseRemovesFirstOfThatName ==
    op = "erase" =>
        IF Hits(pre, name) # {}
        THEN /\ Len(members) = Len(pre) - 1
             /\ members = Without(pre, Min(Hits(pre, name)))
             /\ Cardinality(Hits(pre, name)) = 1 => find(members, name) = end(members)
        ELSE members = pre

\* a bulk insert had left the name twice: erase has removed the first of the
\* two members and find still designates the other
C9_Witness ==
    /\ op = "erase"
    /\ Cardinality(Hits(pre, name)) = 2
    /\ Len(members) = Len(pre) - 1
    /\ find(members, name) # end(members)
    /\ Len(pre) = 3

(* C10: two containers built by set from the same set of (name,value) pairs *)
(* with distinct names compare equal, whatever the insertion orders.        *)
C10_SamePairsCompareEqual ==
    (op = "equals" /\ {members[i] : i \in DOMAIN members} = {rhs[i] : i \in DOMAIN rhs})
        => ret_bool

\* two containers of three members each have been found equal
C10_Witness == op = "equals" /\ Len(members) = 3 /\ Len(rhs) = 3 /\ ret_bool

(* C11: for two containers reachable by set, erase and bulk insert,      *)
(* duplicate names included, operator== is true exactly when the sizes    *)
(* are the same and every member of the left container has, in the right  *)
(* container, SOME member of its name with an equal value; so every       *)
(* container is equal to itself.  (The statement as claimed.)             *)
C11_EqualIffSomeMemberOfThatNameMatches ==
    op = "equals" =>
        /\ ret_bool =
              (/\ Len(members) = Len(rhs)
               /\ \A i \in DOMAIN members : \E k \in DOMAIN rhs :
                      rhs[k].name = members[i].name /\ rhs[k].value = members[i].value)
        /\ members = rhs => ret_bool

(* C11, amended: operator== is true exactly when the sizes are the same   *)
(* and, for every member of the left container, the FIRST member of the   *)
(* right container with that name exists and has an equal value; a        *)
(* container holding one name twice with two values is not equal to       *)
(* itself.                                                                *)
C11_EqualIffFirstMemberOfThatNameMatches ==
    op = "equals" =>
        /\ ret_bool =
              (/\ Len(members) = Len(rhs)
               /\ \A i \in DOMAIN members :
                      /\ Hits(rhs, members[i].name) # {}
                      /\ rhs[Min(Hits(rhs, members[i].name))].value = members[i].value)
        /\ (members = rhs /\ \E i, k \in DOMAIN members :
                i < k /\ members[i].name = members[k].name
                      /\ members[i].value # members[k].value) => ~ret_bool

\* a container holding one name twice has been compared with its own copy
\* and found different
C11_Witness ==
    /\ op = "equals"
    /\ members = rhs
    /\ Len(members) = 2
    /\ members[1].name = members[2].name
    /\ ~ret_bool

\* the tree below the node h[p], the pointers replaced by what they point to
RECURSIVE deep(_, _)
deep(h, p) ==
    LET r == h[p]
    IN  CASE r.kind = "object" ->
               [kind |-> "object",
                members |-> [i \in DOMAIN r.members |->
                               Member(r.members[i].name, deep(h, r.members[i].value))]]
          [] r.kind = "array"  ->
               [kind |-> "array",
                elements |-> [i \in DOMAIN r.elements |-> deep(h, r.elements[i])]]
          [] OTHER             -> r

(* C12: clone() of an array or object rule node clones the contained nodes *)
(* too and shares none with the original, so no later change of the        *)
(* original tree, a bulk insert into a nested node included, changes the   *)
(* tree below the clone or the clone's verdict on any value.               *)
C12_CloneUnchangedByOriginal ==
    [][copy # 0 /\ copy' = copy
            => /\ deep(heap', copy) = deep(heap, copy)
               /\ \A v \in TreeValues :
                      node_validate(heap', copy, v) = node_validate(heap, copy, v)]_vars

(* C13: clone() keeps the predicate: for a node of any class and any value *)
(* the clone validates the value exactly as the node it was cloned from    *)
(* does (same verdict, or the same ways of ending where the document       *)
(* model leaves the way open), and dropping the original changes none of   *)
(* the clone's verdicts.                                                   *)
C13_CloneValidatesAsOriginal ==
    [][/\ op' = "clone" =>
            \A v \in TreeValues :
                node_validate(heap', copy', v) = node_validate(heap, origin', v)
       /\ op' = "discard" =>
            \A v \in TreeValues :
                node_validate(heap', copy, v) = node_validate(heap, copy, v)]_vars

\* the string_rule of "x" has been cloned and destroyed, and its clone
\* accepts the string "x" and rejects the string "y"
C13_Witness ==
    /\ op = "discard"
    /\ origin \notin DOMAIN heap
    /\ heap[copy].kind = "string"
    /\ node_validate(heap, copy, JStringOf(<<120>>)) = {"true"}
    /\ node_validate(heap, copy, JStringOf(<<121>>)) = {"false"}

(* C14: the any-integer rule accepts a value exactly when it is a signed   *)
(* or an unsigned integer: true for every unsigned integer, 0 included,    *)
(* false for every value that is neither.                                  *)
C14_AnyIntegerIffInteger ==
    (op = "validate_node" /\ heap[self].kind = "any_integer")
        => outcome = returned(is_integer(jval) \/ is_uinteger(jval))

(* C15: validate has no error path: for every rule node and every value it *)
(* ends with a boolean, and a value of the wrong type is reported as       *)
(* false: an object rule on a value that is no object, an array rule on a  *)
(* value that is no array and the any-integer rule on a value that is no   *)
(* number all return false and raise nothing.                              *)
C15_ValidateRaisesNothing ==
    op = "validate_node" =>
        /\ outcome \in {"true", "false"}
        /\ (heap[self].kind = "object" /\ ~is_object(jval)) => outcome = "false"
        /\ (heap[self].kind = "array" /\ ~is_array(jval)) => outcome = "false"
        /\ (heap[self].kind = "any_integer"
               /\ ~(is_integer(jval) \/ is_uinteger(jval) \/ is_double(jval)))
              => outcome = "false"

(* C19: an array rule accepts nothing: for every array rule, whatever its  *)
(* elements, and every array document validate returns false, and on no    *)
(* value does it return true; so an object rule whose member of some name  *)
(* is an array rule accepts no document that has a member of that name,    *)
(* and returns false when that member comes first and is an array.         *)
C19_ArrayRuleAcceptsNothing ==
    op = "validate_node" =>
        /\ heap[self].kind = "array" =>
              /\ outcome # "true"
              /\ is_array(jval) => outcome = "false"
        /\ (heap[self].kind = "object" /\ is_object(jval)) =>
              LET m == heap[self].members
                  d == jval.members
                  ToArrayRule(n) ==
                      /\ Hits(m, n) # {}
                      /\ \A k \in Hits(m, n) : heap[m[k].value].kind = "array"
              IN  /\ (\E i \in DOMAIN d : ToArrayRule(d[i].name)) => outcome # "true"
                  /\ (d # <<>> /\ ToArrayRule(d[1].name) /\ is_array(d[1].value))
                        => outcome = "false"

\* the root object rule maps "a" to an array rule of one element and has
\* rejected a document whose member "a" is an array
C19_Witness ==
    /\ op = "validate_node"
    /\ self = Root
    /\ heap[Root].members = <<Member(<<97>>, NestedArray)>>
    /\ Len(heap[NestedArray].elements) = 1
    /\ is_object(jval)
    /\ \E i \in DOMAIN jval.members :
          jval.members[i].name = <<97>> /\ is_array(jval.members[i].value)
    /\ outcome = "false"

(* C16: at(name) fails with std::out_of_range exactly when no member has   *)
(* that name; otherwise it returns the value of the member find returns    *)
(* for the name; either way the container is left as it was.               *)
C16_AtThrowsIffAbsent ==
    op = "at" =>
        /\ outcome \in {"returned", "out_of_range"}
        /\ (outcome = "out_of_range") = (Hits(pre, name) = {})
        /\ outcome = "returned" =>
              /\ find(pre, name) # end(pre)
              /\ ret_value = pre[find(pre, name)].value
              /\ pre[find(pre, name)].name = name
        /\ members = pre

\* at has failed on a full container none of whose members has the name,
\* though one of them comes after it in the order
C16_Witness ==
    /\ op = "at"
    /\ outcome = "out_of_range"
    /\ Len(members) = 3
    /\ \E i \in DOMAIN members : LexLess(name, members[i].name)

(* C18: when a bulk insert has left two or more members of one name,      *)
(* set(name, value) of that name gives the value to the first of them in  *)
(* the sorted order and to no other: the size stays, the other members of *)
(* that name keep their values, and the name stays duplicated.            *)
C18_SetUpdatesFirstOfDuplicates ==
    (op = "set" /\ Cardinality(Hits(pre, name)) >= 2) =>
        /\ Len(members) = Len(pre)
        /\ members = [pre EXCEPT ![Min(Hits(pre, name))].value = value]
        /\ \A k \in Hits(pre, name) \ {Min(Hits(pre, name))} : members[k] = pre[k]
        /\ Hits(members, name) = Hits(pre, name)

\* set has given a new value to the first of two members of one name; the
\* second still has the old one
C18_Witness ==
    /\ op = "set"
    /\ Cardinality(Hits(pre, name)) = 2
    /\ members # pre
    /\ \E k \in Hits(members, name) : members[k].value # value

(* C17: remove_range(from, to) of an array rule fails as a contract        *)
(* violation and removes nothing whenever from > to or to > size; when     *)
(* from <= to <= size it removes the elements at the indices from..to-1    *)
(* and no other: the size goes down by to - from and the elements left     *)
(* keep their order.                                                       *)
C17_RemoveRangeChecksThenRemoves ==
    op = "remove_range" =>
        LET from_index == range[1]
            to_index   == range[2]
            e          == heap[Array].elements
        IN  IF from_index > to_index \/ to_index > Len(pre)
            THEN outcome = "assertion" /\ e = pre
            ELSE /\ outcome = "returned"
                 /\ Len(e) = Len(pre) - (to_index - from_index)
                 /\ \A i \in 1..from_index : e[i] = pre[i]
                 /\ \A i \in (from_index + 1)..Len(e) : e[i] = pre[i + (to_index - from_index)]

\* remove_range(1, 2) has taken the middle one of three elements
C17_Witness ==
    /\ op = "remove_range"
    /\ range = <<1, 2>>
    /\ Len(pre) = 3
    /\ pre[1] # pre[2]
    /\ outcome = "returned"
    /\ heap[Array].elements = <<pre[1], pre[3]>>

====
